---- MODULE Spec2Model ----
(***************************************************************************)
(* SubplotSequence (subplotseq.py): a controller that keeps an ordered     *)
(* list of groups of matplotlib Axes, a current index, a text artist with  *)
(* the navigation instructions and a key-press subscription.               *)
(*                                                                         *)
(* Indices are 0-based as in the Python source; TLA+ sequences are 1-based,*)
(* so the group at Python index i is sequence[i + 1].                      *)
(*                                                                         *)
(* crosscheck.py: the script that compares the model table of every        *)
(* topology with the geometry table of every topology (SpecCross).         *)
(*                                                                         *)
(* trace_path (plot_pwdb.py): the walk from a measurement site's segment   *)
(* back to the segment whose inlet node is 1 (SpecTrace).                  *)
(***************************************************************************)
EXTENDS Integers, Sequences, FiniteSets, TLC

(* ---------------------------- bounds ----------------------------------- *)
\* number of distinct Axes objects the caller owns
NumPanes == 2
\* largest list / array handed to add()
MaxGroupLen == 2
\* add() is not called with a group that would bring the registered elements
\* (an empty group counted as one) above this number
MaxSlots == 3

\* crosscheck.py: number of CoW topologies taken from the list of the script
NumTopologies == 2
\* crosscheck.py: most rows of a model / geometry table
MaxRows == 2
\* crosscheck.py: the cells of a table hold values 1..MaxCell
MaxCell == 2

\* trace_path: most rows (segments) of the model table
MaxSegments == 3
\* trace_path: the nodes of the model table are 1..NumNodes
NumNodes == 3

(* ---------------------------- values ----------------------------------- *)
\* the Axes objects (isinstance(x, Axes) holds)
Panes == 1..NumPanes
\* an element of a list that is not an Axes (an int, a str, ...)
NonDrawable == 0
Elements == Panes \cup {NonDrawable}

\* Python None for an attribute that otherwise holds a one-element tuple
None == <<>>

\* self._navigation_text (the arrows of the source are written in ASCII)
navigation_text == "Use <- -> arrow keys to navigate plots"

\* event.key values: the four keys _on_key looks for, and any other key
Keys == {"right", "down", "left", "up", "x"}

\* all sequences over S of length lo..hi
SeqsOf(S, lo, hi) == UNION {[1..n -> S] : n \in lo..hi}

\* arguments of add():
\*   axes   - one Axes object
\*   list   - a flat list / 1-D array of elements
\*   array  - a 2-D array, given as a two-row array of equal-length rows
\*   other  - a bare value that is neither an Axes nor a list / ndarray
AddArgs ==
    {[kind |-> "axes", pane |-> p, items |-> <<>>, rows |-> <<>>] :
              p \in Panes}
    \cup {[kind |-> "list", pane |-> 0, items |-> l, rows |-> <<>>] :
              l \in SeqsOf(Elements, 0, MaxGroupLen)}
    \cup {[kind |-> "array", pane |-> 0, items |-> <<>>,
           rows |-> <<r1, r2>>] :
              r1 \in SeqsOf(Elements, 1, MaxGroupLen \div 2),
              r2 \in SeqsOf(Elements, 1, MaxGroupLen \div 2)}
    \cup {[kind |-> "other", pane |-> 0, items |-> <<>>, rows |-> <<>>]}

(* ---------------------------- state ------------------------------------ *)
VARIABLES
    sequence,          \* self._sequence: list of lists of elements
    current,           \* self._current
    cid,               \* self._cid: None or <<handle>>
    shown,             \* self._shown
    instruction_text,  \* self._instruction_text: None or <<text of the artist>>
    visible,           \* ax.get_visible() of every Axes
    figTexts,          \* number of text artists the controller put on the figure
    callbacks,         \* number of _on_key subscriptions on the canvas
    loopEntered,       \* plt.show() has been called
    validAdds,         \* number of add() calls that returned normally
    last,              \* the last call (see Call)
    \* crosscheck.py
    models,            \* models[t]: rows of the *_model.txt table of topology t
    geos,              \* geos[t]: rows of pwdb_geo_0001.csv of topology t
    rename,            \* args.rename
    k1, k2,            \* the loop variables (positions in topologies)
    mismatch,          \* mismatch
    matched,           \* the lines "models[k1] <== geos[k2]" printed so far
    dirs,              \* the directories under pwdbdir: <<t>> or <<t2, t1>>
    output,            \* None or <<the line printed after the loops>>
    ccpc,              \* position in the script
    \* trace_path
    model_df,          \* model_df: the rows of the model table
    prefix,            \* prefix: the requested signal prefix
    path,              \* path: the items of the OrderedDict, in order
    inlet_name,        \* inlet_name
    inlet_node,        \* inlet_node
    inlet_mapping,     \* inlet_mapping: "v2" or "v1"
    result,            \* None or <<the items of the returned OrderedDict>>
    visited,           \* the values inlet_node had when a pass of the loop began
    tppc               \* position in trace_path

\* the variables of SubplotSequence
seqVars == <<sequence, current, cid, shown, instruction_text, visible,
             figTexts, callbacks, loopEntered, validAdds, last>>

\* the variables of crosscheck.py
crossVars == <<models, geos, rename, k1, k2, mismatch, matched, dirs,
               output, ccpc>>

\* the variables of trace_path
traceVars == <<model_df, prefix, path, inlet_name, inlet_node, inlet_mapping,
               result, visited, tppc>>

vars == <<seqVars, crossVars, traceVars>>

\* the record of a call: operation, key or kind of argument, the argument of
\* add as the caller gave it, exception raised, current index before the call
NoArg == [kind |-> "none", pane |-> 0, items |-> <<>>, rows |-> <<>>]

Call(op, arg, raised, from) ==
    [op |-> op, arg |-> arg, given |-> NoArg, raised |-> raised, from |-> from]

AddCall(arg, raised, from) ==
    [op |-> "add", arg |-> arg.kind, given |-> arg, raised |-> raised,
     from |-> from]

(* ---------------------------- helpers ---------------------------------- *)
\* the room a group takes in the bounded model
GroupSlots(g) == IF Len(g) = 0 THEN 1 ELSE Len(g)

RECURSIVE Slots(_)
Slots(seq) ==
    IF seq = <<>> THEN 0 ELSE GroupSlots(Head(seq)) + Slots(Tail(seq))

\* a rejected argument takes none
SlotsOf(arg) ==
    IF arg.kind = "axes" THEN 1
    ELSE IF arg.kind = "list" THEN GroupSlots(arg.items)
    ELSE IF arg.kind = "array" THEN Len(arg.rows[1]) + Len(arg.rows[2])
    ELSE 0

\* a flattening that keeps the first row only
Flatten_FirstRow(rows) ==
    IF rows = <<>> THEN <<>> ELSE Head(rows)

RECURSIVE Flatten(_)
\* row-major concatenation of the rows of an array
Flatten(rows) ==
    IF rows = <<>> THEN <<>> ELSE Head(rows) \o Flatten(Tail(rows))

\* np.ravel(axes).tolist()
Ravel(arg) ==
    IF arg.kind = "array" THEN Flatten(arg.rows) ELSE arg.items

\* a _set_visible that touches the first element of the list only
SetVisible_FirstOnly(axes_list, flag, vis) ==
    IF axes_list = <<>> THEN [vis |-> vis, err |-> FALSE]
    ELSE IF Head(axes_list) \notin Panes THEN [vis |-> vis, err |-> TRUE]
    ELSE [vis |-> [vis EXCEPT ![Head(axes_list)] = flag], err |-> FALSE]

RECURSIVE SetVisible(_, _, _)
\* _set_visible: ax.set_visible(flag) for each element in order; an element
\* that is not an Axes has no set_visible and raises AttributeError, which
\* leaves the elements before it already changed
SetVisible(axes_list, flag, vis) ==
    IF axes_list = <<>> THEN [vis |-> vis, err |-> FALSE]
    ELSE IF Head(axes_list) \notin Panes THEN [vis |-> vis, err |-> TRUE]
    ELSE SetVisible(Tail(axes_list), flag,
                    [vis EXCEPT ![Head(axes_list)] = flag])

RECURSIVE ShowOnly_SkipLast(_, _, _, _)
\* a loop that stops one group early
ShowOnly_SkipLast(seq, idx, target, vis) ==
    IF idx >= Len(seq) - 1 THEN [vis |-> vis, err |-> FALSE]
    ELSE LET r == SetVisible(seq[idx + 1], idx = target, vis)
         IN  IF r.err THEN r
             ELSE ShowOnly_SkipLast(seq, idx + 1, target, r.vis)

RECURSIVE ShowOnly(_, _, _, _)
\* for idx, axes_list in enumerate(seq): _set_visible(axes_list, idx == target)
\* idx is the 0-based index of the next group to process
ShowOnly(seq, idx, target, vis) ==
    IF idx >= Len(seq) THEN [vis |-> vis, err |-> FALSE]
    ELSE LET r == SetVisible(seq[idx + 1], idx = target, vis)
         IN  IF r.err THEN r ELSE ShowOnly(seq, idx + 1, target, r.vis)

\* a position that is printed 0-based
PositionInfo_ZeroBased(cur, seq) ==
    " (" \o ToString(cur) \o "/" \o ToString(Len(seq)) \o ")"

\* the f-string of _update_navigation_text
PositionInfo(cur, seq) ==
    " (" \o ToString(cur + 1) \o "/" \o ToString(Len(seq)) \o ")"

\* _update_navigation_text
UpdateNavigationText(text, cur, seq) ==
    IF text # None THEN <<navigation_text \o PositionInfo(cur, seq)>>
    ELSE text

\* _add_navigation_text: the text artist is created only when there is none
AddNavigationText(text) ==
    IF text = None THEN <<navigation_text>> ELSE text

\* _show_current as a function of the controller's fields
ShowCurrent(st) ==
    LET r == ShowOnly(st.sequence, 0, st.current, st.visible)
    IN  IF r.err
        THEN [st EXCEPT !.visible = r.vis, !.raised = "AttributeError"]
        ELSE [st EXCEPT !.visible = r.vis,
                        !.instruction_text =
                            UpdateNavigationText(st.instruction_text,
                                                 st.current, st.sequence)]

\* an advance that moves the index without redrawing
OnKey_AdvanceNoRedraw(st, key) ==
    IF key \in {"right", "down"}
    THEN IF st.current < Len(st.sequence) - 1
         THEN [st EXCEPT !.current = st.current + 1]
         ELSE st
    ELSE IF key \in {"left", "up"}
    THEN IF st.current > 0
         THEN ShowCurrent([st EXCEPT !.current = st.current - 1])
         ELSE st
    ELSE st

\* a retreat that redraws before it moves the index
OnKey_RetreatStale(st, key) ==
    IF key \in {"right", "down"}
    THEN IF st.current < Len(st.sequence) - 1
         THEN ShowCurrent([st EXCEPT !.current = st.current + 1])
         ELSE st
    ELSE IF key \in {"left", "up"}
    THEN IF st.current > 0
         THEN [ShowCurrent(st) EXCEPT !.current = st.current - 1]
         ELSE st
    ELSE st

\* an advance that wraps from the last group to the first
OnKey_Wrap(st, key) ==
    IF key \in {"right", "down"}
    THEN IF st.current < Len(st.sequence) - 1
         THEN ShowCurrent([st EXCEPT !.current = st.current + 1])
         ELSE ShowCurrent([st EXCEPT !.current = 0])
    ELSE IF key \in {"left", "up"}
    THEN IF st.current > 0
         THEN ShowCurrent([st EXCEPT !.current = st.current - 1])
         ELSE st
    ELSE st

\* an advance guarded by <= instead of <
OnKey_OffByOne(st, key) ==
    IF key \in {"right", "down"}
    THEN IF st.current <= Len(st.sequence) - 1
         THEN ShowCurrent([st EXCEPT !.current = st.current + 1])
         ELSE st
    ELSE IF key \in {"left", "up"}
    THEN IF st.current > 0
         THEN ShowCurrent([st EXCEPT !.current = st.current - 1])
         ELSE st
    ELSE st

\* _on_key as a function of the controller's fields
OnKey(st, key) ==
    IF key \in {"right", "down"}
    THEN IF st.current < Len(st.sequence) - 1
         THEN ShowCurrent([st EXCEPT !.current = st.current + 1])
         ELSE st
    ELSE IF key \in {"left", "up"}
    THEN IF st.current > 0
         THEN ShowCurrent([st EXCEPT !.current = st.current - 1])
         ELSE st
    ELSE st

RECURSIVE Dispatch(_, _, _)
\* the canvas calls every subscribed handler once per event
Dispatch(st, key, n) ==
    IF n = 0 THEN st ELSE Dispatch(OnKey(st, key), key, n - 1)

(* ---------------------------- crosscheck.py: values -------------------- *)
\* positions in the list topologies
Topologies == 1..NumTopologies

Cells == 1..MaxCell

\* the rows of the tables: the columns inlet node, outlet node and length;
\* the bounded model takes the rows whose cells sum to at most MaxCell + 2
CrossRows ==
    {r \in [inlet : Cells, outlet : Cells, length : Cells] :
         r.inlet + r.outlet + r.length <= MaxCell + 2}

\* a table read by pd.read_csv: one or more rows
Tables == SeqsOf(CrossRows, 1, MaxRows)

\* table[col]: one column of a table
Column(table, col) == [i \in 1..Len(table) |-> table[i][col]]

\* (a == b).min() for two columns of the same length
SeriesEqMin(a, b) == \A i \in 1..Len(a) : a[i] = b[i]

\* the condition of the if statement in the loops
Matches(m, g) ==
    /\ Len(m) = Len(g)
    /\ SeriesEqMin(Column(m, "inlet"), Column(g, "inlet"))
    /\ SeriesEqMin(Column(m, "outlet"), Column(g, "outlet"))
    /\ SeriesEqMin(Column(m, "length"), Column(g, "length"))

\* crosscheck.py is not running
CrossAtRest ==
    /\ models = [t \in Topologies |-> <<>>]
    /\ geos = [t \in Topologies |-> <<>>]
    /\ rename = FALSE
    /\ k1 = 1 /\ k2 = 1
    /\ mismatch = FALSE
    /\ matched = <<>>
    /\ dirs = {}
    /\ output = None
    /\ ccpc = "off"

(* ---------------------------- trace_path: values -------------------- *)
\* a dict as a function; d.get(k) is None or <<d[k]>>
DictGet(d, k) == IF k \in DOMAIN d THEN <<d[k]>> ELSE None

\* {v: k for k, v in d.items()}
InvertDict(d) ==
    [v \in {d[k] : k \in DOMAIN d} |-> CHOOSE k \in DOMAIN d : d[k] = v]

\* four entries of the v2 mapping from site names to signal prefixes
site_signal_prefix_mapping_v2 ==
    [k \in {"Ascending Aorta", "DTA 1", "Left Common Carotid Artery"} |->
        CASE k = "Ascending Aorta" -> "AorticRoot"
          [] k = "DTA 1" -> "ThorAorta"
          [] k = "Left Common Carotid Artery" -> "LCCA"]

signal_prefix_site_mapping_v2 == InvertDict(site_signal_prefix_mapping_v2)

\* the entries of the v1 mapping for the same arteries
site_signal_prefix_mapping_v1 ==
    [k \in {"Ascending Aorta", "Descending Thoracic Aorta I",
            "Left Common Carotid Artery"} |->
        CASE k = "Ascending Aorta" -> "AorticRoot"
          [] k = "Descending Thoracic Aorta I" -> "ThorAorta"
          [] k = "Left Common Carotid Artery" -> "Carotid"]

signal_prefix_site_mapping_v1 == InvertDict(site_signal_prefix_mapping_v1)

\* the mapping named by inlet_mapping
SiteMapping(m) ==
    IF m = "v2" THEN site_signal_prefix_mapping_v2
    ELSE site_signal_prefix_mapping_v1

\* the values of the column Name
SegmentNames ==
    DOMAIN site_signal_prefix_mapping_v2 \cup DOMAIN site_signal_prefix_mapping_v1

\* the values --path accepts: the prefixes of either mapping
Prefixes ==
    DOMAIN signal_prefix_site_mapping_v2 \cup DOMAIN signal_prefix_site_mapping_v1

Nodes == 1..NumNodes

\* the rows of the model table: the columns Name, Inlet node, Outlet node
Segments == [Name : SegmentNames, Inlet : Nodes, Outlet : Nodes]

\* a model table read by pd.read_csv: one or more rows
ModelTables == SeqsOf(Segments, 1, MaxSegments)

\* model_df[model_df['Name'] == name]
RowsNamed(df, name) == SelectSeq(df, LAMBDA r : r.Name = name)

\* model_df[model_df['Outlet node'] == node]
RowsWithOutlet(df, node) == SelectSeq(df, LAMBDA r : r.Outlet = node)

\* one attempt of get_inlet_name_and_node with the mapping m: the name, the
\* node and the exception of the attempt
InletAttempt(df, pfx, m) ==
    LET sp == IF m = "v2" THEN signal_prefix_site_mapping_v2
              ELSE signal_prefix_site_mapping_v1
    IN  IF pfx \notin DOMAIN sp
        THEN [raised |-> "KeyError", name |-> "", node |-> 0, mapping |-> m]
        ELSE IF RowsNamed(df, sp[pfx]) = <<>>
        THEN [raised |-> "IndexError", name |-> sp[pfx], node |-> 0,
              mapping |-> m]
        ELSE [raised |-> "none", name |-> sp[pfx],
              node |-> RowsNamed(df, sp[pfx])[1].Inlet, mapping |-> m]

\* get_inlet_name_and_node: the v2 mapping, and the v1 mapping after a
\* KeyError or an IndexError
GetInletNameAndNode(df, pfx) ==
    IF InletAttempt(df, pfx, "v2").raised = "none"
    THEN InletAttempt(df, pfx, "v2")
    ELSE InletAttempt(df, pfx, "v1")

\* the position of key k among the items, 0 when it is no key
RECURSIVE KeyIndex(_, _, _)
KeyIndex(items, k, i) ==
    IF i > Len(items) THEN 0
    ELSE IF items[i][1] = k THEN i
    ELSE KeyIndex(items, k, i + 1)

\* path[k] = v on an OrderedDict: a new key goes to the end, a key that is
\* there keeps its place
SetItem(items, k, v) ==
    IF KeyIndex(items, k, 1) = 0 THEN Append(items, <<k, v>>)
    ELSE [items EXCEPT ![KeyIndex(items, k, 1)] = <<k, v>>]

\* reversed(list(path.items()))
Reversed(items) == [i \in 1..Len(items) |-> items[Len(items) + 1 - i]]

\* trace_path is not running
TraceAtRest ==
    /\ model_df = <<>>
    /\ prefix = ""
    /\ path = <<>>
    /\ inlet_name = ""
    /\ inlet_node = 0
    /\ inlet_mapping = ""
    /\ result = None
    /\ visited = {}
    /\ tppc = "off"

(* ---------------------------- initial state ---------------------------- *)
\* __init__; the Axes belong to the caller, who may have hidden any of them
Init ==
    /\ sequence = <<>>
    /\ current = 0
    /\ cid = None
    /\ shown = FALSE
    /\ instruction_text = None
    /\ visible \in [Panes -> BOOLEAN]
    /\ figTexts = 0
    /\ callbacks = 0
    /\ loopEntered = FALSE
    /\ validAdds = 0
    /\ last = Call("init", "none", "none", 0)
    /\ CrossAtRest
    /\ TraceAtRest

(* ---------------------------- operations ------------------------------- *)
\* an add without the final else: a bare value is wrapped like an Axes
Add_NoTypeCheck(arg) ==
    /\ Slots(sequence) + SlotsOf(arg) <= MaxSlots
    /\ IF arg.kind \in {"list", "array"}
       THEN /\ sequence' = Append(sequence, Ravel(arg))
            /\ validAdds' = validAdds + 1
            /\ last' = AddCall(arg, "none", current)
       ELSE /\ sequence' = Append(sequence, <<arg.pane>>)
            /\ validAdds' = validAdds + 1
            /\ last' = AddCall(arg, "none", current)
    /\ UNCHANGED <<current, cid, shown, instruction_text, visible,
                   figTexts, callbacks, loopEntered>>
    /\ UNCHANGED <<crossVars, traceVars>>

\* add(axes); the first conjunct only keeps the model finite
Add(arg) ==
    /\ Slots(sequence) + SlotsOf(arg) <= MaxSlots
    /\ IF arg.kind = "axes"
       THEN /\ sequence' = Append(sequence, <<arg.pane>>)
            /\ validAdds' = validAdds + 1
            /\ last' = AddCall(arg, "none", current)
       ELSE IF arg.kind \in {"list", "array"}
       THEN /\ sequence' = Append(sequence, Ravel(arg))
            /\ validAdds' = validAdds + 1
            /\ last' = AddCall(arg, "none", current)
       ELSE /\ sequence' = sequence
            /\ validAdds' = validAdds
            /\ last' = AddCall(arg, "TypeError", current)
    /\ UNCHANGED <<current, cid, shown, instruction_text, visible,
                   figTexts, callbacks, loopEntered>>
    /\ UNCHANGED <<crossVars, traceVars>>

\* a show() that tests for the empty sequence only before plt.show()
Show_LateCheck ==
    /\ UNCHANGED <<crossVars, traceVars>>
    /\ IF sequence = <<>>
       THEN /\ instruction_text' =
                   UpdateNavigationText(AddNavigationText(instruction_text),
                                        current, sequence)
            /\ figTexts' =
                   IF instruction_text = None THEN figTexts + 1 ELSE figTexts
            /\ cid' = IF cid = None THEN <<callbacks + 1>> ELSE cid
            /\ callbacks' = IF cid = None THEN callbacks + 1 ELSE callbacks
            /\ shown' = TRUE
            /\ last' = Call("show", "none", "RuntimeError", current)
            /\ UNCHANGED <<sequence, current, visible, loopEntered, validAdds>>
       ELSE LET r == ShowOnly(sequence, 0, 0, visible)
            IN  IF r.err
                THEN /\ visible' = r.vis
                     /\ last' = Call("show", "none", "AttributeError", current)
                     /\ UNCHANGED <<sequence, current, cid, shown,
                                    instruction_text, figTexts, callbacks,
                                    loopEntered, validAdds>>
                ELSE /\ visible' = r.vis
                     /\ instruction_text' =
                            UpdateNavigationText(
                                AddNavigationText(instruction_text),
                                current, sequence)
                     /\ figTexts' =
                            IF instruction_text = None THEN figTexts + 1
                            ELSE figTexts
                     /\ cid' = IF cid = None THEN <<callbacks + 1>> ELSE cid
                     /\ callbacks' =
                            IF cid = None THEN callbacks + 1 ELSE callbacks
                     /\ shown' = TRUE
                     /\ loopEntered' = TRUE
                     /\ last' = Call("show", "none", "none", current)
                     /\ UNCHANGED <<sequence, current, validAdds>>

\* a show() that subscribes _on_key on every call
Show_AlwaysConnects ==
    /\ UNCHANGED <<crossVars, traceVars>>
    /\ IF sequence = <<>>
       THEN /\ last' = Call("show", "none", "RuntimeError", current)
            /\ UNCHANGED <<sequence, current, cid, shown, instruction_text,
                           visible, figTexts, callbacks, loopEntered, validAdds>>
       ELSE LET r == ShowOnly(sequence, 0, 0, visible)
            IN  IF r.err
                THEN /\ visible' = r.vis
                     /\ last' = Call("show", "none", "AttributeError", current)
                     /\ UNCHANGED <<sequence, current, cid, shown,
                                    instruction_text, figTexts, callbacks,
                                    loopEntered, validAdds>>
                ELSE /\ visible' = r.vis
                     /\ instruction_text' =
                            UpdateNavigationText(
                                AddNavigationText(instruction_text),
                                current, sequence)
                     /\ figTexts' =
                            IF instruction_text = None THEN figTexts + 1
                            ELSE figTexts
                     /\ cid' = <<callbacks + 1>>
                     /\ callbacks' = callbacks + 1
                     /\ shown' = TRUE
                     /\ loopEntered' = TRUE
                     /\ last' = Call("show", "none", "none", current)
                     /\ UNCHANGED <<sequence, current, validAdds>>

\* show()
Show ==
    /\ UNCHANGED <<crossVars, traceVars>>
    /\ IF sequence = <<>>
       THEN /\ last' = Call("show", "none", "RuntimeError", current)
            /\ UNCHANGED <<sequence, current, cid, shown, instruction_text,
                           visible, figTexts, callbacks, loopEntered, validAdds>>
       ELSE LET r == ShowOnly(sequence, 0, 0, visible)
            IN  IF r.err
                THEN /\ visible' = r.vis
                     /\ last' = Call("show", "none", "AttributeError", current)
                     /\ UNCHANGED <<sequence, current, cid, shown,
                                    instruction_text, figTexts, callbacks,
                                    loopEntered, validAdds>>
                ELSE /\ visible' = r.vis
                     /\ instruction_text' =
                            UpdateNavigationText(
                                AddNavigationText(instruction_text),
                                current, sequence)
                     /\ figTexts' =
                            IF instruction_text = None THEN figTexts + 1
                            ELSE figTexts
                     /\ cid' = IF cid = None THEN <<callbacks + 1>> ELSE cid
                     /\ callbacks' =
                            IF cid = None THEN callbacks + 1 ELSE callbacks
                     /\ shown' = TRUE
                     /\ loopEntered' = TRUE
                     /\ last' = Call("show", "none", "none", current)
                     /\ UNCHANGED <<sequence, current, validAdds>>

\* a key_press_event of the canvas, delivered to the subscribed handlers
KeyPress(key) ==
    /\ callbacks > 0
    /\ LET st0 == [sequence |-> sequence, current |-> current,
                   visible |-> visible,
                   instruction_text |-> instruction_text,
                   raised |-> "none"]
           st1 == Dispatch(st0, key, callbacks)
       IN  /\ current' = st1.current
           /\ visible' = st1.visible
           /\ instruction_text' = st1.instruction_text
           /\ last' = Call("key", key, st1.raised, current)
    /\ UNCHANGED <<sequence, cid, shown, figTexts, callbacks, loopEntered,
                   validAdds>>
    /\ UNCHANGED <<crossVars, traceVars>>

Next ==
    \/ \E arg \in AddArgs : Add(arg)
    \/ Show
    \/ \E key \in Keys : KeyPress(key)

Spec == Init /\ [][Next]_vars

(* ---------------------------- crosscheck.py ---------------------------- *)
\* SubplotSequence freshly constructed and never used
SeqAtRest ==
    /\ sequence = <<>>
    /\ current = 0
    /\ cid = None
    /\ shown = FALSE
    /\ instruction_text = None
    /\ visible = [p \in Panes |-> TRUE]
    /\ figTexts = 0
    /\ callbacks = 0
    /\ loopEntered = FALSE
    /\ validAdds = 0
    /\ last = Call("init", "none", "none", 0)

\* the script up to the loops: the tables are read, every topology has its
\* directory
InitCross ==
    /\ models \in [Topologies -> Tables]
    /\ geos \in [Topologies -> Tables]
    /\ rename \in BOOLEAN
    /\ k1 = 1 /\ k2 = 1
    /\ mismatch = FALSE
    /\ matched = <<>>
    /\ dirs = {<<t>> : t \in Topologies}
    /\ output = None
    /\ ccpc = "loop"
    /\ SeqAtRest
    /\ TraceAtRest

\* one pass of the inner loop body, for the pair (k1, k2)
CrossCompare ==
    /\ ccpc = "loop"
    /\ LET hit == Matches(models[k1], geos[k2])
           cross == hit /\ k1 # k2
           missing == cross /\ rename /\ <<k2>> \notin dirs
       IN  /\ matched' = IF hit THEN Append(matched, <<k1, k2>>) ELSE matched
           /\ mismatch' = (mismatch \/ cross)
           /\ dirs' = IF cross /\ rename /\ ~missing
                      THEN (dirs \ {<<k2>>}) \cup {<<k2, k1>>}
                      ELSE dirs
           /\ IF missing
              THEN \* path.rename of a directory renamed before
                   /\ ccpc' = "FileNotFoundError"
                   /\ UNCHANGED <<k1, k2>>
              ELSE IF k2 < NumTopologies
              THEN /\ k2' = k2 + 1
                   /\ UNCHANGED <<k1, ccpc>>
              ELSE IF k1 < NumTopologies
              THEN /\ k1' = k1 + 1
                   /\ k2' = 1
                   /\ UNCHANGED ccpc
              ELSE /\ ccpc' = "report"
                   /\ UNCHANGED <<k1, k2>>
    /\ UNCHANGED <<models, geos, rename, output>>
    /\ UNCHANGED <<seqVars, traceVars>>

\* the print after the loops
CrossReport ==
    /\ ccpc = "report"
    /\ output' = IF mismatch THEN <<"models and geometries don't match">>
                 ELSE <<"models and geometries match OK">>
    /\ ccpc' = IF rename THEN "rename_back" ELSE "done"
    /\ UNCHANGED <<models, geos, rename, k1, k2, mismatch, matched, dirs>>
    /\ UNCHANGED <<seqVars, traceVars>>

\* one pass of the last loop: a directory t2_renamed_t1, in the order glob
\* yields them, is renamed to t1; renaming onto a directory that is still
\* there raises OSError
CrossRenameBack ==
    /\ ccpc = "rename_back"
    /\ LET renamed == {p \in dirs : Len(p) = 2}
       IN  IF renamed = {}
           THEN /\ ccpc' = "done"
                /\ UNCHANGED dirs
           ELSE \E p \in renamed :
                    IF <<p[2]>> \in dirs
                    THEN /\ ccpc' = "OSError"
                         /\ UNCHANGED dirs
                    ELSE /\ dirs' = (dirs \ {p}) \cup {<<p[2]>>}
                         /\ UNCHANGED ccpc
    /\ UNCHANGED <<models, geos, rename, k1, k2, mismatch, matched, output>>
    /\ UNCHANGED <<seqVars, traceVars>>

NextCross ==
    \/ CrossCompare
    \/ CrossReport
    \/ CrossRenameBack

SpecCross == InitCross /\ [][NextCross]_vars

(* ---------------------------- trace_path ---------------------------- *)
\* trace_path is called with a table and a prefix; path = OrderedDict()
InitTrace ==
    /\ model_df \in ModelTables
    /\ prefix \in Prefixes
    /\ path = <<>>
    /\ inlet_name = ""
    /\ inlet_node = 0
    /\ inlet_mapping = ""
    /\ result = None
    /\ visited = {}
    /\ tppc = "call"
    /\ SeqAtRest
    /\ CrossAtRest

\* the call of get_inlet_name_and_node and the first assignment to path
TraceLookup ==
    /\ tppc = "call"
    /\ LET got == GetInletNameAndNode(model_df, prefix)
       IN  IF got.raised # "none"
           THEN /\ tppc' = got.raised
                /\ UNCHANGED <<path, inlet_name, inlet_node, inlet_mapping>>
           ELSE /\ inlet_name' = got.name
                /\ inlet_node' = got.node
                /\ inlet_mapping' = got.mapping
                /\ path' = SetItem(path, got.name,
                                   DictGet(SiteMapping(got.mapping), got.name))
                /\ tppc' = "loop"
    /\ UNCHANGED <<model_df, prefix, result, visited>>
    /\ UNCHANGED <<seqVars, crossVars>>

\* one pass of the while loop: the first row whose outlet node is inlet_node
TraceStep ==
    /\ tppc = "loop"
    /\ inlet_node # 1
    /\ LET inlet_df == RowsWithOutlet(model_df, inlet_node)
       IN  IF inlet_df = <<>>
           THEN \* .values[0] of an empty selection
                /\ tppc' = "IndexError"
                /\ UNCHANGED <<path, inlet_name, inlet_node>>
           ELSE /\ inlet_name' = inlet_df[1].Name
                /\ path' = SetItem(path, inlet_df[1].Name,
                                   DictGet(SiteMapping(inlet_mapping),
                                           inlet_df[1].Name))
                /\ inlet_node' = inlet_df[1].Inlet
                /\ UNCHANGED tppc
    /\ visited' = visited \cup {inlet_node}
    /\ UNCHANGED <<model_df, prefix, inlet_mapping, result>>
    /\ UNCHANGED <<seqVars, crossVars>>

\* the loop ends at inlet node 1: the items are returned in reverse order
TraceReturn ==
    /\ tppc = "loop"
    /\ inlet_node = 1
    /\ result' = <<Reversed(path)>>
    /\ tppc' = "returned"
    /\ UNCHANGED <<model_df, prefix, path, inlet_name, inlet_node,
                   inlet_mapping, visited>>
    /\ UNCHANGED <<seqVars, crossVars>>

NextTrace ==
    \/ TraceLookup
    \/ TraceStep
    \/ TraceReturn

SpecTrace == InitTrace /\ [][NextTrace]_vars

(* ---------------------------- vocabulary of the properties ------------- *)
\* every element of every group is an Axes
AllDrawable(seq) ==
    \A i \in 1..Len(seq) : \A k \in 1..Len(seq[i]) : seq[i][k] \in Panes

\* all panes of group g are visible / hidden under vis
GroupVisibleIn(vis, g) ==
    \A k \in 1..Len(g) : g[k] \in Panes /\ vis[g[k]]

GroupHiddenIn(vis, g) ==
    \A k \in 1..Len(g) : g[k] \in Panes /\ ~vis[g[k]]

\* the 1-based positions of the groups that contain pane p
GroupsOf(seq, p) ==
    {i \in 1..Len(seq) : \E k \in 1..Len(seq[i]) : seq[i][k] = p}

\* the panes registered in some group
PanesIn(seq) == {p \in Panes : GroupsOf(seq, p) # {}}

\* the 1-based position of the last group that contains pane p
LastGroupOf(seq, p) ==
    CHOOSE i \in GroupsOf(seq, p) : \A j \in GroupsOf(seq, p) : j <= i

\* group i shares no pane with any other group
SharesNoPane(seq, i) ==
    \A p \in PanesIn(seq) : i \in GroupsOf(seq, p) => GroupsOf(seq, p) = {i}

\* the groups are non-empty lists of Axes and no Axes is in two groups
ProperGroups(seq) ==
    /\ AllDrawable(seq)
    /\ \A i \in 1..Len(seq) : seq[i] # <<>> /\ SharesNoPane(seq, i)

\* group i (1-based) is visible and every other group is hidden
OnlyVisibleIn(vis, seq, i) ==
    /\ GroupVisibleIn(vis, seq[i])
    /\ \A j \in (1..Len(seq)) \ {i} : GroupHiddenIn(vis, seq[j])

\* a pane is visible exactly when the last group holding it is group i
VisibleByLastGroup(vis, seq, i) ==
    \A p \in PanesIn(seq) : vis[p] <=> (LastGroupOf(seq, p) = i)

ShowOk == last.op = "show" /\ last.raised = "none"

\* the step is a key press of an advance / retreat key on a shown sequence
AdvanceStep ==
    /\ shown
    /\ current < Len(sequence) - 1
    /\ last'.op = "key" /\ last'.arg \in {"right", "down"}

RetreatStep ==
    /\ shown
    /\ current > 0
    /\ last'.op = "key" /\ last'.arg \in {"left", "up"}

(* ---------------------------- C1 --------------------------------------- *)
\* C1: once the sequence has been shown, exactly one view-group is visible
\* and every other view-group is hidden, under any interleaving of add, show
\* and key presses.  Stated for sequences of proper view-groups (non-empty
\* lists of Axes, no Axes in two groups).
C1_ExactlyOneVisible ==
    (shown /\ ProperGroups(sequence)) =>
        \E i \in 1..Len(sequence) : OnlyVisibleIn(visible, sequence, i)

C5_IgnoredKeys ==
    [][(/\ last'.op = "key"
        /\ \/ last'.arg \in {"right", "down"} /\ current = Len(sequence) - 1
           \/ last'.arg \in {"left", "up"} /\ current = 0
           \/ last'.arg \notin {"right", "down", "left", "up"})
       => UNCHANGED <<sequence, current, visible, instruction_text>>]_vars

\* an advance key pressed at the last of several groups
C5_Witness ==
    /\ last.op = "key" /\ last.arg = "right"
    /\ Len(sequence) >= 2
    /\ last.from = Len(sequence) - 1
    /\ current = last.from

(* ---------------------------- C6 --------------------------------------- *)
\* C6: after a successful show() and after every key press that changed the
\* index without an error, the indicator text is the instruction string
\* followed by " (i+1/N)", i the current index and N the sequence length.
C6_IndicatorText ==
    (\/ ShowOk
     \/ last.op = "key" /\ last.raised = "none" /\ current # last.from)
    => instruction_text =
           <<navigation_text \o " (" \o ToString(current + 1) \o "/"
                             \o ToString(Len(sequence)) \o ")">>

C6_Witness ==
    /\ last.op = "key" /\ last.raised = "none"
    /\ last.from = 1 /\ current = 2
    /\ instruction_text = <<navigation_text \o " (3/3)">>

(* ---------------------------- C7 --------------------------------------- *)
\* C7: every successful show() ends with the current index at 0 and the
\* indicator at position "(1/N)".
C7_ShowEndsAtZero ==
    ShowOk =>
        /\ current = 0
        /\ instruction_text =
               <<navigation_text \o " (1/" \o ToString(Len(sequence)) \o ")">>

(* ---------------------------- C8 --------------------------------------- *)
\* C8: whenever the sequence is non-empty the current index is an integer
\* in 0..length-1.
C8_CurrentInRange ==
    sequence # <<>> => current \in 0..(Len(sequence) - 1)

\* the last group reached by an advance
C8_Witness ==
    /\ last.op = "key" /\ last.arg \in {"right", "down"}
    /\ Len(sequence) >= 2
    /\ last.from = Len(sequence) - 2
    /\ current = Len(sequence) - 1

(* ---------------------------- C9 --------------------------------------- *)
\* the panes of an accepted argument in the order the caller gave them
GivenOrder(arg) ==
    IF arg.kind = "axes" THEN <<arg.pane>>
    ELSE IF arg.kind = "list" THEN arg.items
    ELSE [k \in 1..(Len(arg.rows[1]) + Len(arg.rows[2])) |->
             IF k <= Len(arg.rows[1]) THEN arg.rows[1][k]
             ELSE arg.rows[2][k - Len(arg.rows[1])]]

\* C9: every accepted add() appends one group holding the panes of its
\* argument in the given order, so the length is the number of accepted
\* calls; no step reorders, removes or alters a group already added, and
\* show() and key presses leave the sequence alone.
C9_AddAppends ==
    [][/\ (last'.op = "add" /\ last'.raised = "none") =>
              sequence' = Append(sequence, GivenOrder(last'.given))
       /\ (last'.op = "add" /\ last'.given.kind # "other") =>
              last'.raised = "none"
       /\ last'.op \in {"show", "key"} => sequence' = sequence
       /\ Len(sequence') = validAdds'
       /\ Len(sequence') >= Len(sequence)
       /\ \A k \in 1..Len(sequence) : sequence'[k] = sequence[k]]_vars

\* a second group taken from a 2-D array, added after the sequence was shown
C9_Witness ==
    /\ last.op = "add" /\ last.arg = "array"
    /\ shown
    /\ validAdds = 2 /\ Len(sequence) = 2
    /\ Len(sequence[2]) = 2 /\ sequence[2][1] # sequence[2][2]

(* ---------------------------- C10 -------------------------------------- *)
\* C10: add() with a bare value that is neither an Axes nor a list / array
\* raises TypeError and leaves the sequence, the current index and every
\* pane's visibility as they were.
C10_AddRejectsBare ==
    [][(last'.op = "add" /\ last'.arg = "other") =>
          /\ last'.raised = "TypeError"
          /\ UNCHANGED <<sequence, current, visible>>]_vars

C10_Witness ==
    /\ last.op = "add" /\ last.arg = "other" /\ last.raised = "TypeError"
    /\ shown
    /\ Len(sequence) = 2 /\ current = 1

(* ---------------------------- C11 -------------------------------------- *)
\* C11: show() on an empty sequence raises RuntimeError before any side
\* effect: no pane's visibility changes, no indicator is created, no key
\* handler is subscribed, the controller is not marked as shown and the
\* display loop is not entered.
C11_ShowEmptyRaises ==
    [][(last'.op = "show" /\ sequence = <<>>) =>
          /\ last'.raised = "RuntimeError"
          /\ UNCHANGED <<sequence, current, visible, instruction_text,
                         figTexts, cid, callbacks, shown, loopEntered>>]_vars

\* show() has just been called on the empty sequence
C11_Witness ==
    /\ last.op = "show" /\ last.raised = "RuntimeError"
    /\ sequence = <<>>
    /\ instruction_text = None /\ cid = None /\ ~shown /\ ~loopEntered

(* ---------------------------- C12 -------------------------------------- *)
\* C12: every group stored in the sequence is a list of one or more Axes
\* (add() rejects, and does not append, an empty collection and a collection
\* with an element that is not an Axes).
C12_GroupsAreAxesLists ==
    \A i \in 1..Len(sequence) :
        /\ sequence[i] # <<>>
        /\ \A k \in 1..Len(sequence[i]) : sequence[i][k] \in Panes

(* ---------------------------- C13 -------------------------------------- *)
\* the last call was a key press that moved the index and raised nothing
KeyMovedOk ==
    last.op = "key" /\ last.raised = "none" /\ current # last.from

\* the 1-based position of the group the last redraw made visible: group 0
\* for show(), the current group for a key press
RedrawTarget == IF last.op = "show" THEN 1 ELSE current + 1

C14_OneIndicatorOneHandler ==
    [][/\ figTexts' <= 1
       /\ callbacks' <= 1
       /\ last'.op = "key" => (current' - current) \in {-1, 0, 1}]_vars

\* show() has succeeded a second time (the index had been moved by a key)
C14_Witness ==
    /\ ShowOk
    /\ last.from > 0
    /\ figTexts = 1 /\ callbacks = 1
    /\ cid = <<1>>

(* ---------------------------- C15 -------------------------------------- *)
\* model t and geometry t have the same number of rows and the same inlet
\* node, outlet node and length in every row
OwnTableMatches(t) ==
    /\ Len(models[t]) = Len(geos[t])
    /\ \A i \in 1..Len(models[t]) : models[t][i] = geos[t][i]

\* C15: the script prints "models and geometries match OK" only when every
\* model matches the geometry table of its own topology, and in every other
\* case it ends having printed "models and geometries don't match".
C15_ReportsOwnMatches ==
    /\ output = <<"models and geometries match OK">> =>
           \A t \in Topologies : OwnTableMatches(t)
    /\ (ccpc \notin {"loop", "report"}
        /\ \E t \in Topologies : ~OwnTableMatches(t)) =>
           output = <<"models and geometries don't match">>
(* ---------------------------- C16 -------------------------------------- *)
\* C16: trace_path terminates for every model table and requested site: the
\* walk does not loop forever on a cycle of nodes.  The next pass of the
\* loop depends on inlet_node alone, so the walk terminates exactly when no
\* pass begins at a node from which an earlier pass began.
C16_TraceTerminates == tppc = "loop" => inlet_node \notin visited

====
